---- MODULE Spec2Model ----
(***************************************************************************)
(* twistbonjour: Bonjour (DNS-SD) sessions driven by a Twisted reactor.    *)
(*                                                                         *)
(* The state is the three component instances (one BonjourAdvertiser, one  *)
(* BonjourBrowser, one stand-alone BonjourResolver), the DNSServiceRef     *)
(* sessions pybonjour has handed out, the BonjourDescriptor bridges that   *)
(* wrap them, and the reactor's reader set.  Sessions and bridges are      *)
(* created together by start*, so bridge b wraps session b at creation.    *)
(*                                                                         *)
(* The reactor is the select reactor the code was written for             *)
(* (twisted.internet.reactor on the Bonjour platforms): addReader and      *)
(* removeReader are set insertion and set removal, removeReader of a       *)
(* reader that is not registered is a no-op, and a reader is removed       *)
(* before its connectionLost is called.                                    *)
(***************************************************************************)
EXTENDS Integers, Sequences, FiniteSets, TLC

VARIABLES
    sd,         \* sd[s]: the DNSServiceRef s (pybonjour session)
    desc,       \* desc[b]: the BonjourDescriptor b (self.sdRef, teardown count)
    comp,       \* comp[c]: the component's self.sdRef and self.bonjourDesc
    readers,    \* the reactor's reader set (bridges)
    nextSd,     \* next session / bridge identity to hand out
    delivered,  \* delivered[s]: results the daemon wrote to s, in order
    invoked,    \* invoked[s]: callback invocations of s, in order
    calls,      \* calls[c]: the start*/stop* calls made on c, with outcome
    cfg         \* constructor arguments of the advertiser and the browser

vars == <<sd, desc, comp, readers, nextSd, delivered, invoked, calls, cfg>>

----------------------------------------------------------------------------
(* Bounds of the model: sessions handed out, and environment events (start* *)
(* and stop* calls plus results delivered by the daemon).                   *)
MaxSessions == 3
MaxEvents == 4

Comps == {"adv", "brw", "res"}
Names == {"A", "B"}
Sessions == 1..MaxSessions

kDNSServiceErr_NoError == 0
ErrCodes == {kDNSServiceErr_NoError, -65537}

\* self.sdRef = None; also "attribute bonjourDesc not set" for a component.
None == 0

----------------------------------------------------------------------------
(* pybonjour sessions.  owner is the component whose start* created the     *)
(* session ("spawn" for a Resolver made by browseCallback, which nothing   *)
(* references afterwards); parent is the browse session whose callback     *)
(* made it.                                                                *)

NoSd == [kind |-> "none", cb |-> "", open |-> FALSE, closes |-> 0, name |-> "",
         regtype |-> "", domain |-> "", ifx |-> 0, owner |-> "", parent |-> 0,
         queue |-> <<>>]

\* DNSServiceRegister / DNSServiceBrowse / DNSServiceResolve: a new open
\* session with nothing pending, for the name, regtype, domain and interface
\* index given, which reports to the callback cb.
NewSd(kind, cb, name, regtype, domain, ifx, owner, parent) ==
    [kind |-> kind, cb |-> cb, open |-> TRUE, closes |-> 0, name |-> name,
     regtype |-> regtype, domain |-> domain, ifx |-> ifx, owner |-> owner,
     parent |-> parent, queue |-> <<>>]

\* What a callback is called with: errorCode, the "add" flag of flags, the
\* service name, regtype, domain, interfaceIndex and (resolve) port.
Result(e, a, n, rt, d, x, p) ==
    [err |-> e, add |-> a, name |-> n, regtype |-> rt, domain |-> d,
     ifx |-> x, port |-> p]

\* sdRef.close()
sdClose(S, s) == [S EXCEPT ![s].open = FALSE, ![s].closes = @ + 1]

\* reactor.addReader / reactor.removeReader
addReader(R, b) == R \cup {b}
removeReader(R, b) == R \ {b}

\* BonjourDescriptor(self.sdRef)
BonjourDescriptor(s) == [sdRef |-> s, lost |-> 0, raised |-> 0]

TotalCalls == Len(calls["adv"]) + Len(calls["brw"]) + Len(calls["res"])

RECURSIVE SumLen(_, _)
SumLen(f, S) ==
    IF S = {} THEN 0
    ELSE LET x == CHOOSE y \in S : TRUE IN Len(f[x]) + SumLen(f, S \ {x})

TotalDelivered == SumLen(delivered, Sessions)

\* connectionLost calls on a bridge beyond its first.
RECURSIVE SumRepeats(_)
SumRepeats(S) ==
    IF S = {} THEN 0
    ELSE LET x == CHOOSE y \in S : TRUE
         IN  (IF desc[x].lost > 1 THEN desc[x].lost - 1 ELSE 0) + SumRepeats(S \ {x})

TotalRepeats == SumRepeats(Sessions)

\* doRead calls that ended with an exception.
RECURSIVE SumRaised(_)
SumRaised(S) ==
    IF S = {} THEN 0
    ELSE LET x == CHOOSE y \in S : TRUE IN desc[x].raised + SumRaised(S \ {x})

TotalRaised == SumRaised(Sessions)

\* The environment (the program's callers, the daemon with its deliveries
\* and failures, and repeated connectionLost notifications) makes at most
\* MaxEvents calls and deliveries in a run.
Budget == TotalCalls + TotalDelivered + TotalRepeats + TotalRaised < MaxEvents

Call(c, op, ok) == [calls EXCEPT ![c] = Append(@, [op |-> op, ok |-> ok])]

----------------------------------------------------------------------------
\* The state after the constructors: no session, self.sdRef = None and no
\* bonjourDesc attribute on every component, the Browser's resolvers list
\* empty, nothing registered.
Constructed ==
    /\ sd = [s \in Sessions |-> NoSd]
    /\ desc = [b \in Sessions |-> [sdRef |-> None, lost |-> 0, raised |-> 0]]
    /\ comp = [c \in Comps |->
                  IF c = "brw"
                  THEN [sdRef |-> None, bonjourDesc |-> None, resolvers |-> <<>>]
                  ELSE [sdRef |-> None, bonjourDesc |-> None]]
    /\ readers = {}
    /\ nextSd = 1
    /\ delivered = [s \in Sessions |-> <<>>]
    /\ invoked = [s \in Sessions |-> <<>>]
    /\ calls = [c \in Comps |-> <<>>]

\* The demonstration's arguments (bonjourecho.py).
Init ==
    /\ Constructed
    /\ cfg = [name |-> "myecho", regtype |-> "_echo._tcp", port |-> 8000,
              brwRegtype |-> "_echo._tcp", domain |-> "local", ifx |-> 0]

----------------------------------------------------------------------------
(* BonjourAdvertiser *)

\* Mutant: regtype and domain change places in the DNSServiceRegister call.
startAdvertisingSwapped ==
    /\ Budget
    /\ nextSd <= MaxSessions
    /\ LET s == nextSd IN
       /\ sd' = [sd EXCEPT ![s] = NewSd("register", "registrationCallback", cfg.name,
                                        cfg.domain, cfg.regtype, cfg.ifx, "adv", 0)]
       /\ desc' = [desc EXCEPT ![s] = BonjourDescriptor(s)]
       /\ comp' = [comp EXCEPT !["adv"] = [sdRef |-> s, bonjourDesc |-> s]]
       /\ readers' = addReader(readers, s)
       /\ nextSd' = s + 1
    /\ calls' = Call("adv", "start", TRUE)
    /\ UNCHANGED <<delivered, invoked, cfg>>

\* Mutant: a start* that waits for the daemon's first reply itself and
\* hands it to the callback before returning.
startAdvertisingEager ==
    /\ Budget
    /\ nextSd <= MaxSessions
    /\ LET s == nextSd
           r == Result(kDNSServiceErr_NoError, TRUE, cfg.name, cfg.regtype,
                       cfg.domain, 0, 0)
       IN
       /\ sd' = [sd EXCEPT ![s] = NewSd("register", "registrationCallback", cfg.name,
                                        cfg.regtype, cfg.domain, cfg.ifx, "adv", 0)]
       /\ desc' = [desc EXCEPT ![s] = BonjourDescriptor(s)]
       /\ comp' = [comp EXCEPT !["adv"] = [sdRef |-> s, bonjourDesc |-> s]]
       /\ readers' = addReader(readers, s)
       /\ nextSd' = s + 1
       /\ invoked' = [invoked EXCEPT ![s] =
                         Append(@, [res |-> r, via |-> "start", path |-> "user"])]
    /\ calls' = Call("adv", "start", TRUE)
    /\ UNCHANGED <<delivered, cfg>>

startAdvertising ==
    /\ Budget
    /\ nextSd <= MaxSessions
    /\ LET s == nextSd IN
       /\ sd' = [sd EXCEPT ![s] = NewSd("register", "registrationCallback", cfg.name,
                                        cfg.regtype, cfg.domain, cfg.ifx, "adv", 0)]
       /\ desc' = [desc EXCEPT ![s] = BonjourDescriptor(s)]
       /\ comp' = [comp EXCEPT !["adv"] = [sdRef |-> s, bonjourDesc |-> s]]
       /\ readers' = addReader(readers, s)
       /\ nextSd' = s + 1
    /\ calls' = Call("adv", "start", TRUE)
    /\ UNCHANGED <<delivered, invoked, cfg>>

\* Mutant: self.sdRef = None is left out after close().
stopAdvertisingKeepsRef ==
    /\ Budget
    /\ IF comp["adv"].bonjourDesc = None
       THEN /\ calls' = Call("adv", "stop", FALSE)
            /\ UNCHANGED <<sd, desc, comp, readers>>
       ELSE /\ readers' = removeReader(readers, comp["adv"].bonjourDesc)
            /\ IF comp["adv"].sdRef # None
               THEN sd' = sdClose(sd, comp["adv"].sdRef)
               ELSE UNCHANGED sd
            /\ calls' = Call("adv", "stop", TRUE)
            /\ UNCHANGED <<desc, comp>>
    /\ UNCHANGED <<nextSd, delivered, invoked, cfg>>

\* Mutant: the session is closed but its bridge is left registered.
stopAdvertisingNoRemove ==
    /\ Budget
    /\ IF comp["adv"].bonjourDesc = None
       THEN /\ calls' = Call("adv", "stop", FALSE)
            /\ UNCHANGED <<sd, comp>>
       ELSE /\ IF comp["adv"].sdRef # None
               THEN /\ sd' = sdClose(sd, comp["adv"].sdRef)
                    /\ comp' = [comp EXCEPT !["adv"].sdRef = None]
               ELSE UNCHANGED <<sd, comp>>
            /\ calls' = Call("adv", "stop", TRUE)
    /\ UNCHANGED <<desc, readers, nextSd, delivered, invoked, cfg>>

stopAdvertising ==
    /\ Budget
    /\ IF comp["adv"].bonjourDesc = None
       THEN \* self.bonjourDesc does not exist: AttributeError before removeReader
            /\ calls' = Call("adv", "stop", FALSE)
            /\ UNCHANGED <<sd, desc, comp, readers>>
       ELSE /\ readers' = removeReader(readers, comp["adv"].bonjourDesc)
            /\ IF comp["adv"].sdRef # None
               THEN /\ sd' = sdClose(sd, comp["adv"].sdRef)
                    /\ comp' = [comp EXCEPT !["adv"].sdRef = None]
               ELSE UNCHANGED <<sd, comp>>
            /\ calls' = Call("adv", "stop", TRUE)
            /\ UNCHANGED desc
    /\ UNCHANGED <<nextSd, delivered, invoked, cfg>>

----------------------------------------------------------------------------
(* BonjourBrowser *)

\* Mutant: a start* that first releases the session it still holds.
startBrowsingReleasing ==
    /\ Budget
    /\ nextSd <= MaxSessions
    /\ LET s == nextSd
           old == comp["brw"].sdRef
           S == IF old # None THEN sdClose(sd, old) ELSE sd
           R == IF old # None THEN removeReader(readers, comp["brw"].bonjourDesc)
                ELSE readers
       IN
       /\ sd' = [S EXCEPT ![s] = NewSd("browse", "browseCallback", "", cfg.brwRegtype,
                                       cfg.domain, cfg.ifx, "brw", 0)]
       /\ desc' = [desc EXCEPT ![s] = BonjourDescriptor(s)]
       /\ comp' = [comp EXCEPT !["brw"].sdRef = s, !["brw"].bonjourDesc = s]
       /\ readers' = addReader(R, s)
       /\ nextSd' = s + 1
    /\ calls' = Call("brw", "start", TRUE)
    /\ UNCHANGED <<delivered, invoked, cfg>>

startBrowsing ==
    /\ Budget
    /\ nextSd <= MaxSessions
    /\ LET s == nextSd IN
       /\ sd' = [sd EXCEPT ![s] = NewSd("browse", "browseCallback", "", cfg.brwRegtype,
                                       cfg.domain, cfg.ifx, "brw", 0)]
       /\ desc' = [desc EXCEPT ![s] = BonjourDescriptor(s)]
       /\ comp' = [comp EXCEPT !["brw"].sdRef = s, !["brw"].bonjourDesc = s]
       /\ readers' = addReader(readers, s)
       /\ nextSd' = s + 1
    /\ calls' = Call("brw", "start", TRUE)
    /\ UNCHANGED <<delivered, invoked, cfg>>

\* Mutant: stopBrowsing also stops the Resolvers its browse sessions made.
stopBrowsingStopsResolvers ==
    /\ Budget
    /\ IF comp["brw"].bonjourDesc = None
       THEN /\ calls' = Call("brw", "stop", FALSE)
            /\ UNCHANGED <<sd, desc, comp, readers>>
       ELSE LET spawned == {u \in Sessions : sd[u].owner = "spawn" /\ sd[u].open}
                closed  == [u \in Sessions |->
                               IF u \in spawned
                               THEN [sd[u] EXCEPT !.open = FALSE, !.closes = @ + 1]
                               ELSE sd[u]]
            IN  /\ readers' = removeReader(readers, comp["brw"].bonjourDesc) \ spawned
                /\ IF comp["brw"].sdRef # None
                   THEN /\ sd' = sdClose(closed, comp["brw"].sdRef)
                        /\ comp' = [comp EXCEPT !["brw"].sdRef = None]
                   ELSE /\ sd' = closed
                        /\ UNCHANGED comp
                /\ calls' = Call("brw", "stop", TRUE)
                /\ UNCHANGED desc
    /\ UNCHANGED <<nextSd, delivered, invoked, cfg>>

\* Mutant: removeReader is called with nothing registered under that
\* bridge, i.e. the descriptor stays in the reader set.
stopBrowsingNoRemove ==
    /\ Budget
    /\ IF comp["brw"].bonjourDesc = None
       THEN /\ calls' = Call("brw", "stop", FALSE)
            /\ UNCHANGED <<sd, comp>>
       ELSE /\ IF comp["brw"].sdRef # None
               THEN /\ sd' = sdClose(sd, comp["brw"].sdRef)
                    /\ comp' = [comp EXCEPT !["brw"].sdRef = None]
               ELSE UNCHANGED <<sd, comp>>
            /\ calls' = Call("brw", "stop", TRUE)
    /\ UNCHANGED <<desc, readers, nextSd, delivered, invoked, cfg>>

stopBrowsing ==
    /\ Budget
    /\ IF comp["brw"].bonjourDesc = None
       THEN /\ calls' = Call("brw", "stop", FALSE)
            /\ UNCHANGED <<sd, desc, comp, readers>>
       ELSE /\ readers' = removeReader(readers, comp["brw"].bonjourDesc)
            /\ IF comp["brw"].sdRef # None
               THEN /\ sd' = sdClose(sd, comp["brw"].sdRef)
                    /\ comp' = [comp EXCEPT !["brw"].sdRef = None]
               ELSE UNCHANGED <<sd, comp>>
            /\ calls' = Call("brw", "stop", TRUE)
            /\ UNCHANGED desc
    /\ UNCHANGED <<nextSd, delivered, invoked, cfg>>

\* Mutant: the removal path stops the resolve sessions made for the
\* removed instance.
serviceRemovedCallbackStopping(S, s, r, via) ==
    LET gone == {u \in Sessions : /\ S[u].kind = "resolve"
                                  /\ S[u].parent = s
                                  /\ S[u].name = r.name
                                  /\ S[u].open}
    IN  /\ sd' = [u \in Sessions |-> IF u \in gone THEN sdClose(S, u)[u] ELSE S[u]]
        /\ readers' = readers \ gone
        /\ invoked' = [invoked EXCEPT ![s] =
                          Append(@, [res |-> r, via |-> via, path |-> "removed"])]
        /\ UNCHANGED <<desc, nextSd>>

\* log.msg("Service Removed"): the removal path; it changes no state.
serviceRemovedCallback(S, s, r, via) ==
    /\ sd' = S
    /\ invoked' = [invoked EXCEPT ![s] =
                      Append(@, [res |-> r, via |-> via, path |-> "removed"])]
    /\ UNCHANGED <<desc, readers, nextSd>>

\* Mutant: no second Resolver for an instance that is being resolved.
spawnResolverDedup(S, s, r, via) ==
    IF \E u \in Sessions : /\ S[u].kind = "resolve" /\ S[u].parent = s
                           /\ S[u].name = r.name /\ S[u].open
    THEN /\ sd' = S
         /\ invoked' = [invoked EXCEPT ![s] =
                           Append(@, [res |-> r, via |-> via, path |-> "resolver"])]
         /\ UNCHANGED <<desc, readers, nextSd>>
    ELSE /\ nextSd <= MaxSessions
         /\ LET n == nextSd IN
            /\ sd' = [S EXCEPT ![n] = NewSd("resolve", "resolveCallback", r.name,
                                            r.regtype, r.domain, r.ifx, "spawn", s)]
            /\ desc' = [desc EXCEPT ![n] = BonjourDescriptor(n)]
            /\ readers' = addReader(readers, n)
            /\ nextSd' = n + 1
         /\ invoked' = [invoked EXCEPT ![s] =
                           Append(@, [res |-> r, via |-> via, path |-> "resolver"])]

\* Mutant: the Resolver is constructed but startResolving is never called.
spawnResolverNotStarted(S, s, r, via) ==
    /\ sd' = S
    /\ invoked' = [invoked EXCEPT ![s] =
                      Append(@, [res |-> r, via |-> via, path |-> "resolver"])]
    /\ UNCHANGED <<desc, readers, nextSd>>

\* BonjourResolver(serviceName, regtype, self.resolveCallback, ...).startResolving()
\* on a Resolver that nothing references afterwards.
spawnResolver(S, s, r, via) ==
    /\ nextSd <= MaxSessions
    /\ LET n == nextSd IN
       /\ sd' = [S EXCEPT ![n] = NewSd("resolve", "resolveCallback", r.name, r.regtype,
                                      r.domain, r.ifx, "spawn", s)]
       /\ desc' = [desc EXCEPT ![n] = BonjourDescriptor(n)]
       /\ readers' = addReader(readers, n)
       /\ nextSd' = n + 1
    /\ invoked' = [invoked EXCEPT ![s] =
                      Append(@, [res |-> r, via |-> via, path |-> "resolver"])]

\* Mutant: the error code is not tested.
browseCallbackNoErrorCheck(S, s, r, via) ==
    IF ~r.add
    THEN serviceRemovedCallback(S, s, r, via)
    ELSE spawnResolver(S, s, r, via)

\* Mutant: the "add" flag is tested before the error code.
browseCallbackFlagsFirst(S, s, r, via) ==
    IF ~r.add
    THEN serviceRemovedCallback(S, s, r, via)
    ELSE IF r.err # kDNSServiceErr_NoError
         THEN /\ sd' = S
              /\ invoked' = [invoked EXCEPT ![s] =
                                Append(@, [res |-> r, via |-> via, path |-> "error"])]
              /\ UNCHANGED <<desc, readers, nextSd>>
         ELSE spawnResolver(S, s, r, via)

\* S is the session table after the result r was taken off s's socket.
browseCallback(S, s, r, via) ==
    IF r.err # kDNSServiceErr_NoError
    THEN \* log.err and return
         /\ sd' = S
         /\ invoked' = [invoked EXCEPT ![s] =
                           Append(@, [res |-> r, via |-> via, path |-> "error"])]
         /\ UNCHANGED <<desc, readers, nextSd>>
    ELSE IF ~r.add
         THEN serviceRemovedCallback(S, s, r, via)
         ELSE spawnResolver(S, s, r, via)

----------------------------------------------------------------------------
(* BonjourResolver (the stand-alone instance "res", resolving cfg.name) *)

startResolving ==
    /\ Budget
    /\ nextSd <= MaxSessions
    /\ LET s == nextSd IN
       /\ sd' = [sd EXCEPT ![s] = NewSd("resolve", "resolveCallback", cfg.name,
                                        cfg.brwRegtype, cfg.domain, cfg.ifx, "res", 0)]
       /\ desc' = [desc EXCEPT ![s] = BonjourDescriptor(s)]
       /\ comp' = [comp EXCEPT !["res"] = [sdRef |-> s, bonjourDesc |-> s]]
       /\ readers' = addReader(readers, s)
       /\ nextSd' = s + 1
    /\ calls' = Call("res", "start", TRUE)
    /\ UNCHANGED <<delivered, invoked, cfg>>

\* Mutant: a stop* that returns quietly when start* never ran.
stopResolvingGuarded ==
    /\ Budget
    /\ IF comp["res"].bonjourDesc = None
       THEN /\ calls' = Call("res", "stop", TRUE)
            /\ UNCHANGED <<sd, desc, comp, readers>>
       ELSE /\ readers' = removeReader(readers, comp["res"].bonjourDesc)
            /\ IF comp["res"].sdRef # None
               THEN /\ sd' = sdClose(sd, comp["res"].sdRef)
                    /\ comp' = [comp EXCEPT !["res"].sdRef = None]
               ELSE UNCHANGED <<sd, comp>>
            /\ calls' = Call("res", "stop", TRUE)
            /\ UNCHANGED desc
    /\ UNCHANGED <<nextSd, delivered, invoked, cfg>>

stopResolving ==
    /\ Budget
    /\ IF comp["res"].bonjourDesc = None
       THEN /\ calls' = Call("res", "stop", FALSE)
            /\ UNCHANGED <<sd, desc, comp, readers>>
       ELSE /\ readers' = removeReader(readers, comp["res"].bonjourDesc)
            /\ IF comp["res"].sdRef # None
               THEN /\ sd' = sdClose(sd, comp["res"].sdRef)
                    /\ comp' = [comp EXCEPT !["res"].sdRef = None]
               ELSE UNCHANGED <<sd, comp>>
            /\ calls' = Call("res", "stop", TRUE)
            /\ UNCHANGED desc
    /\ UNCHANGED <<nextSd, delivered, invoked, cfg>>

----------------------------------------------------------------------------
(* The user's callbacks (registrationCallback, resolveCallback) print and   *)
(* return.                                                                 *)
userCallback(S, s, r, via) ==
    /\ sd' = S
    /\ invoked' = [invoked EXCEPT ![s] =
                      Append(@, [res |-> r, via |-> via, path |-> "user"])]
    /\ UNCHANGED <<desc, readers, nextSd>>

\* Mutant: the newest pending result is handed to the callback first.
DNSServiceProcessResultNewest(s, via) ==
    LET q == sd[s].queue
        r == q[Len(q)]
        S == [sd EXCEPT ![s].queue = SubSeq(q, 1, Len(q) - 1)]
    IN  IF sd[s].cb = "browseCallback"
        THEN browseCallback(S, s, r, via)
        ELSE userCallback(S, s, r, via)

\* pybonjour.DNSServiceProcessResult(sdRef): reads the oldest pending result
\* of the session and calls the callback the session was created with.
DNSServiceProcessResult(s, via) ==
    LET r == Head(sd[s].queue)
        S == [sd EXCEPT ![s].queue = Tail(@)]
    IN  IF sd[s].cb = "browseCallback"
        THEN browseCallback(S, s, r, via)
        ELSE userCallback(S, s, r, via)

----------------------------------------------------------------------------
(* BonjourDescriptor *)

\* Mutant: doRead processes results until nothing is pending (for a session
\* with a user callback).
doReadDrain(b) ==
    /\ b \in readers
    /\ desc[b].sdRef # None
    /\ sd[desc[b].sdRef].open
    /\ sd[desc[b].sdRef].queue # <<>>
    /\ LET s == desc[b].sdRef
           q == sd[s].queue
       IN  IF Len(q) >= 2 /\ sd[s].cb # "browseCallback"
           THEN /\ sd' = [sd EXCEPT ![s].queue = Tail(Tail(q))]
                /\ invoked' = [invoked EXCEPT ![s] =
                      Append(Append(@, [res |-> q[1], via |-> "doRead", path |-> "user"]),
                             [res |-> q[2], via |-> "doRead", path |-> "user"])]
                /\ UNCHANGED <<desc, readers, nextSd>>
           ELSE DNSServiceProcessResult(s, "doRead")
    /\ UNCHANGED <<comp, delivered, calls, cfg>>

\* The reactor calls doRead on a registered bridge whose descriptor is
\* readable, that is, whose session has a result pending.
doRead(b) ==
    /\ b \in readers
    /\ desc[b].sdRef # None
    /\ sd[desc[b].sdRef].open
    /\ sd[desc[b].sdRef].queue # <<>>
    /\ DNSServiceProcessResult(desc[b].sdRef, "doRead")
    /\ UNCHANGED <<comp, delivered, calls, cfg>>

\* Mutant: a failed process-result call makes the bridge close its session.
doReadRaisesClosing(b) ==
    /\ Budget
    /\ b \in readers
    /\ desc[b].sdRef # None
    /\ sd[desc[b].sdRef].open
    /\ sd' = sdClose(sd, desc[b].sdRef)
    /\ desc' = [desc EXCEPT ![b].sdRef = None, ![b].raised = @ + 1]
    /\ UNCHANGED <<comp, readers, nextSd, delivered, invoked, calls, cfg>>

\* doRead on a registered bridge when pybonjour.DNSServiceProcessResult
\* raises (the daemon connection failed): doRead has no handler, the
\* exception leaves it before any callback ran.
doReadRaises(b) ==
    /\ Budget
    /\ b \in readers
    /\ desc[b].sdRef # None
    /\ sd[desc[b].sdRef].open
    /\ desc' = [desc EXCEPT ![b].raised = @ + 1]
    /\ UNCHANGED <<sd, comp, readers, nextSd, delivered, invoked, calls, cfg>>

\* Mutant: the session is closed but the handle is kept.
connectionLostKeepsRef(b) ==
    /\ IF desc[b].sdRef # None
       THEN /\ sd' = sdClose(sd, desc[b].sdRef)
            /\ desc' = [desc EXCEPT ![b].lost = @ + 1]
       ELSE /\ desc' = [desc EXCEPT ![b].lost = @ + 1]
            /\ UNCHANGED sd

connectionLost(b) ==
    /\ IF desc[b].sdRef # None
       THEN /\ sd' = sdClose(sd, desc[b].sdRef)
            /\ desc' = [desc EXCEPT ![b].sdRef = None, ![b].lost = @ + 1]
       ELSE /\ desc' = [desc EXCEPT ![b].lost = @ + 1]
            /\ UNCHANGED sd

\* Reactor shutdown (or disconnect): the reader is removed, then told.
Teardown(b) ==
    /\ b \in readers
    /\ readers' = removeReader(readers, b)
    /\ connectionLost(b)
    /\ UNCHANGED <<comp, nextSd, delivered, invoked, calls, cfg>>

\* connectionLost is called once more on a bridge that was already told.
connectionLostAgain(b) ==
    /\ Budget
    /\ b < nextSd
    /\ b \notin readers
    /\ desc[b].lost >= 1
    /\ connectionLost(b)
    /\ UNCHANGED <<comp, readers, nextSd, delivered, invoked, calls, cfg>>

----------------------------------------------------------------------------
(* The mDNS daemon (through pybonjour): it writes results to the socket of  *)
(* an open session.                                                        *)

\* A browse result names an instance of the session's regtype, found in
\* the reply domain on a concrete interface (the Browser itself asks with
\* domain 'local' and interface index 0, "any").  A registration result
\* reports the name, regtype and domain of the registration; a resolve
\* result the port of the resolved instance.
ReplyDomain == "local."
ReplyInterfaces == {2}

ResultsFor(s) ==
    IF sd[s].kind = "browse"
    THEN {Result(e, a, n, sd[s].regtype, ReplyDomain, x, 0) :
             e \in ErrCodes, a \in BOOLEAN, n \in Names, x \in ReplyInterfaces}
    ELSE IF sd[s].kind = "resolve"
    THEN {Result(e, FALSE, sd[s].name, sd[s].regtype, sd[s].domain, sd[s].ifx,
                 cfg.port) : e \in ErrCodes}
    ELSE {Result(e, TRUE, sd[s].name, sd[s].regtype, sd[s].domain, 0, 0) :
             e \in ErrCodes}

\* The result r becomes readable on the descriptor of session s.
Write(s, r) ==
    /\ sd' = [sd EXCEPT ![s].queue = Append(@, r)]
    /\ delivered' = [delivered EXCEPT ![s] = Append(@, r)]
    /\ UNCHANGED <<desc, comp, readers, nextSd, invoked, calls, cfg>>

Deliver(s, r) ==
    /\ Budget
    /\ sd[s].open
    /\ Write(s, r)

----------------------------------------------------------------------------
Next ==
    \/ startAdvertising
    \/ stopAdvertising
    \/ startBrowsing
    \/ stopBrowsing
    \/ startResolving
    \/ stopResolving
    \/ \E b \in Sessions : doRead(b)
    \/ \E b \in Sessions : doReadRaises(b)
    \/ \E b \in Sessions : Teardown(b)
    \/ \E b \in Sessions : connectionLostAgain(b)
    \/ \E s \in Sessions : \E r \in ResultsFor(s) : Deliver(s, r)

Spec == Init /\ [][Next]_vars

TypeOK ==
    /\ nextSd \in 1..(MaxSessions + 1)
    /\ readers \subseteq Sessions
    /\ \A s \in Sessions : sd[s].closes \in Nat

----------------------------------------------------------------------------
(* Re-entrant use: a user callback that stops a component while the        *)
(* reactor is inside the doRead that dispatched it.                        *)

\* Mutant: the stop closes the session and leaves the bridge registered.
stopInNoRemove(S, c) ==
    IF comp[c].bonjourDesc = None
    THEN /\ calls' = Call(c, "stop", FALSE)
         /\ sd' = S
         /\ UNCHANGED <<comp, readers>>
    ELSE /\ UNCHANGED readers
         /\ IF comp[c].sdRef # None
            THEN /\ sd' = sdClose(S, comp[c].sdRef)
                 /\ comp' = [comp EXCEPT ![c].sdRef = None]
            ELSE /\ sd' = S
                 /\ UNCHANGED comp
         /\ calls' = Call(c, "stop", TRUE)

\* stopAdvertising / stopBrowsing / stopResolving of component c, run on
\* the session state S the enclosing step has reached.
stopIn(S, c) ==
    IF comp[c].bonjourDesc = None
    THEN /\ calls' = Call(c, "stop", FALSE)
         /\ sd' = S
         /\ UNCHANGED <<comp, readers>>
    ELSE /\ readers' = removeReader(readers, comp[c].bonjourDesc)
         /\ IF comp[c].sdRef # None
            THEN /\ sd' = sdClose(S, comp[c].sdRef)
                 /\ comp' = [comp EXCEPT ![c].sdRef = None]
            ELSE /\ sd' = S
                 /\ UNCHANGED comp
         /\ calls' = Call(c, "stop", TRUE)

\* doRead on bridge b dispatches a user callback, and the callback calls
\* the stop* of component c before it returns.
doReadStopping(b, c) ==
    /\ Budget
    /\ b \in readers
    /\ desc[b].sdRef # None
    /\ sd[desc[b].sdRef].open
    /\ sd[desc[b].sdRef].queue # <<>>
    /\ sd[desc[b].sdRef].cb # "browseCallback"
    /\ LET s == desc[b].sdRef
           r == Head(sd[s].queue)
       IN  /\ invoked' = [invoked EXCEPT ![s] =
                   Append(@, [res |-> r, via |-> "doRead", path |-> "stopping"])]
           /\ stopIn([sd EXCEPT ![s].queue = Tail(@)], c)
    /\ UNCHANGED <<desc, nextSd, delivered, cfg>>

ReentrantNext ==
    \/ Next
    \/ \E b \in Sessions : \E c \in Comps : doReadStopping(b, c)

ReentrantSpec == Init /\ [][ReentrantNext]_vars

----------------------------------------------------------------------------
(* End to end: BonjourEchoFactory.startFactory starts the Browser and then *)
(* the Advertiser; the daemon announces a registered service once to every *)
(* open browse session of its regtype and answers every open resolve       *)
(* session for a registered name once with the registered port, both with  *)
(* error code 0; besides, it may deliver failures, removals and repeated   *)
(* replies.  The reactor dispatches every readable registered descriptor.  *)

RegTypes == {"_test._tcp", "_echo._tcp"}
Ports == {8000, 9000}

InitE2E ==
    /\ Constructed
    /\ cfg \in [name : {"svcX"}, regtype : RegTypes, port : Ports,
                brwRegtype : RegTypes, domain : {"local"}, ifx : {0}]

startFactoryBrowser ==
    /\ calls["brw"] = <<>>
    /\ startBrowsing

startFactoryAdvertiser ==
    /\ calls["brw"] # <<>>
    /\ calls["adv"] = <<>>
    /\ startAdvertising

Registered(g) == sd[g].kind = "register" /\ sd[g].open

DaemonAnnounce ==
    \E b, g \in Sessions :
        LET r == Result(kDNSServiceErr_NoError, TRUE, sd[g].name, sd[b].regtype,
                        ReplyDomain, CHOOSE x \in ReplyInterfaces : TRUE, 0)
        IN  /\ sd[b].kind = "browse" /\ sd[b].open
            /\ Registered(g)
            /\ sd[g].regtype = sd[b].regtype
            /\ \A i \in 1..Len(delivered[b]) : delivered[b][i] # r
            /\ Write(b, r)

DaemonResolve ==
    \E u, g \in Sessions :
        LET r == Result(kDNSServiceErr_NoError, FALSE, sd[u].name, sd[u].regtype,
                        sd[u].domain, sd[u].ifx, cfg.port)
        IN  /\ sd[u].kind = "resolve" /\ sd[u].open
            /\ Registered(g)
            /\ sd[g].name = sd[u].name /\ sd[g].regtype = sd[u].regtype
            /\ \A i \in 1..Len(delivered[u]) : delivered[u][i] # r
            /\ Write(u, r)

DaemonNoise ==
    \E s \in Sessions : \E r \in ResultsFor(s) :
        /\ ~(sd[s].kind = "browse" /\ r.add /\ r.err = kDNSServiceErr_NoError)
        /\ Deliver(s, r)

E2ENext ==
    \/ startFactoryBrowser
    \/ startFactoryAdvertiser
    \/ DaemonAnnounce
    \/ DaemonResolve
    \/ DaemonNoise
    \/ \E b \in Sessions : doRead(b)

E2ESpec ==
    /\ InitE2E
    /\ [][E2ENext]_vars
    /\ \A b \in Sessions : WF_vars(doRead(b))
    /\ WF_vars(DaemonAnnounce)
    /\ WF_vars(DaemonResolve)

----------------------------------------------------------------------------
(* Reading the call history. *)

Last(q) == q[Len(q)]

\* The step appends a call of op to calls[c].
Called(c, op) ==
    /\ Len(calls'[c]) = Len(calls[c]) + 1
    /\ Last(calls'[c]).op = op

Owned(c) == {s \in Sessions : sd[s].owner = c}

\* The session created by the start* that is call i of c: the k-th session
\* c owns, where call i is c's k-th start*.
SessionOfCall(c, i) ==
    LET k == Cardinality({j \in 1..i : calls[c][j].op = "start"})
    IN  CHOOSE s \in Owned(c) : Cardinality({u \in Owned(c) : u <= s}) = k

StartCalls(c) == {i \in 1..Len(calls[c]) : calls[c][i].op = "start"}

\* Sessions whose start* was directly followed by another start* on c.
Replaced(c) ==
    {SessionOfCall(c, i) : i \in {j \in StartCalls(c) :
        j < Len(calls[c]) /\ calls[c][j + 1].op = "start"}}

\* Sessions whose start* was directly followed by a stop* on c.
Stopped(c) ==
    {SessionOfCall(c, i) : i \in {j \in StartCalls(c) :
        j < Len(calls[c]) /\ calls[c][j + 1].op = "stop"}}

\* The reactor never tore down a bridge of c.
NoTeardown(c) == \A s \in Owned(c) : desc[s].lost = 0

\* c was driven by start*, stop*, start*, ... and nothing else.
Alternating(c) ==
    /\ NoTeardown(c)
    /\ \A i \in 1..Len(calls[c]) :
          /\ calls[c][i].ok
          /\ calls[c][i].op = (IF i % 2 = 1 THEN "start" ELSE "stop")

----------------------------------------------------------------------------
(* C1: on a started component, a stop* that directly follows a stop* of    *)
(* the same component returns normally and changes nothing: no close() is  *)
(* called, the session stays closed, the component's session reference     *)
(* stays unset and the reader set is as the first stop* left it.           *)
C1_SecondStopChangesNothing ==
    [][\A c \in Comps :
         (/\ calls[c] # <<>>
          /\ Last(calls[c]) = [op |-> "stop", ok |-> TRUE]
          /\ Called(c, "stop"))
         => /\ Last(calls'[c]).ok
            /\ comp[c].sdRef = None
            /\ sd' = sd
            /\ comp' = comp
            /\ desc' = desc
            /\ readers' = readers]_vars

\* Each of the three components was started, stopped and stopped again
\* (in some run), with the session closed exactly once.
C1_Witness ==
    \E c \in Comps :
        /\ Len(calls[c]) = 3
        /\ calls[c][1].op = "start"
        /\ calls[c][2] = [op |-> "stop", ok |-> TRUE]
        /\ calls[c][3] = [op |-> "stop", ok |-> TRUE]
        /\ \E s \in Owned(c) : sd[s].closes = 1 /\ ~sd[s].open

(* C2: while a component is driven by strictly alternating start*, stop*   *)
(* calls, after a start* it owns exactly one open session, never closed    *)
(* before, whose bridge is the one registered bridge of the component and  *)
(* wraps that session, and every start* made a new session; after a stop*  *)
(* it owns no open session and none of its bridges is registered.          *)
C2_AlternatingLifecycle ==
    \A c \in Comps :
        (Alternating(c) /\ calls[c] # <<>>) =>
            IF Last(calls[c]).op = "start"
            THEN /\ comp[c].sdRef # None
                 /\ {s \in Owned(c) : sd[s].open} = {comp[c].sdRef}
                 /\ sd[comp[c].sdRef].closes = 0
                 /\ Owned(c) \cap readers = {comp[c].bonjourDesc}
                 /\ desc[comp[c].bonjourDesc].sdRef = comp[c].sdRef
                 /\ Cardinality(Owned(c)) = Cardinality(StartCalls(c))
            ELSE /\ comp[c].sdRef = None
                 /\ {s \in Owned(c) : sd[s].open} = {}
                 /\ Owned(c) \cap readers = {}
                 /\ \A s \in Owned(c) : sd[s].closes = 1

\* start*, stop*, start*: the second start* made a second session.
C2_Witness ==
    \E c \in Comps :
        /\ Alternating(c)
        /\ Len(calls[c]) = 3
        /\ Cardinality(Owned(c)) = 2
        /\ comp[c].sdRef \in readers

(* C3: a session whose start* was directly followed by another start* on   *)
(* the same component is no longer the component's session, and no stop*   *)
(* ever closes it: it is closed only by the reactor's teardown of its      *)
(* bridge, and until then it stays open with its bridge registered.  A     *)
(* stop* that follows closes and deregisters the latest session only.      *)
C3_SecondStartLeaksFirst ==
    \A c \in Comps :
        /\ \A s \in Replaced(c) :
              /\ comp[c].sdRef # s
              /\ comp[c].bonjourDesc # s
              /\ sd[s].closes = (IF desc[s].lost = 0 THEN 0 ELSE 1)
              /\ desc[s].lost = 0 => (sd[s].open /\ s \in readers)
        /\ \A s \in Stopped(c) : ~sd[s].open /\ s \notin readers

\* start*, start*, stop*, stop*: the first session is still open and
\* registered, the second is closed and deregistered.
C3_Witness ==
    \E c \in Comps :
        /\ Len(calls[c]) = 4
        /\ calls[c][1].op = "start" /\ calls[c][2].op = "start"
        /\ calls[c][3].op = "stop" /\ calls[c][4].op = "stop"
        /\ \E s \in Replaced(c) : sd[s].open /\ s \in readers
        /\ \E s \in Stopped(c) : sd[s].closes = 1

(* C4: a stop* on a component whose start* never ran raises; it closes no  *)
(* session and leaves the reader set (and everything else) unchanged.      *)
C4_StopBeforeStartRaises ==
    [][\A c \in Comps :
         (StartCalls(c) = {} /\ Called(c, "stop"))
         => /\ ~Last(calls'[c]).ok
            /\ sd' = sd
            /\ comp' = comp
            /\ desc' = desc
            /\ readers' = readers]_vars

\* A stop* was made on a never-started component while another
\* component's bridge was registered.
C4_Witness ==
    \E c \in Comps :
        /\ calls[c] # <<>>
        /\ StartCalls(c) = {}
        /\ readers # {}

(* C5: once a stop* has returned for the session a component started, the  *)
(* session's bridge is not in the reader set and the session is closed,    *)
(* and no later step dispatches a callback for that session, pending       *)
(* results included.                                                       *)
C5_NoDispatchAfterStop ==
    /\ [](\A c \in Comps : \A s \in Stopped(c) : s \notin readers /\ ~sd[s].open)
    /\ [][\A c \in Comps : \A s \in Stopped(c) :
            invoked'[s] = invoked[s] /\ sd'[s].queue = sd[s].queue]_vars

\* A session was stopped with a delivered result still pending.
C5_Witness ==
    \E c \in Comps : \E s \in Stopped(c) :
        /\ sd[s].queue # <<>>
        /\ Len(invoked[s]) < Len(delivered[s])

----------------------------------------------------------------------------
(* Reading the callback history. *)

Browses == {s \in Sessions : sd[s].kind = "browse"}

\* Resolve sessions made by the callback of browse session s for name n.
ResolversFor(s, n) ==
    {u \in Sessions : sd[u].kind = "resolve" /\ sd[u].parent = s /\ sd[u].name = n}

BrowseResult(e, a, n) ==
    Result(e, a, n, cfg.brwRegtype, ReplyDomain, CHOOSE x \in ReplyInterfaces : TRUE, 0)

\* The callback of browse session s was invoked with exactly
\* [add A, add B, remove A], all with error code 0.
AddAAddBRemoveA(s) ==
    /\ Len(invoked[s]) = 3
    /\ invoked[s][1].res = BrowseResult(kDNSServiceErr_NoError, TRUE, "A")
    /\ invoked[s][2].res = BrowseResult(kDNSServiceErr_NoError, TRUE, "B")
    /\ invoked[s][3].res = BrowseResult(kDNSServiceErr_NoError, FALSE, "A")

(* C6 as claimed: a browseCallback invocation takes the removal path if    *)
(* and only if the "add" flag is absent, whatever the error code.          *)
C6_Original ==
    \A s \in Browses : \A i \in 1..Len(invoked[s]) :
        (invoked[s][i].path = "removed") <=> ~invoked[s][i].res.add

(* C6 amended: a browseCallback invocation takes the removal path if and   *)
(* only if the error code is 0 and the "add" flag is absent; with a        *)
(* nonzero error code it takes the error path whatever the flags.          *)
C6_RemovalIffNoErrorAndNoAdd ==
    \A s \in Browses : \A i \in 1..Len(invoked[s]) :
        /\ (invoked[s][i].path = "removed") <=>
              (invoked[s][i].res.err = kDNSServiceErr_NoError /\ ~invoked[s][i].res.add)
        /\ (invoked[s][i].path = "error") <=>
              (invoked[s][i].res.err # kDNSServiceErr_NoError)

\* One browse session saw a removal with error code 0 and a result without
\* the "add" flag carrying a nonzero error code.
C6_Witness ==
    \E s \in Browses : \E i, j \in 1..Len(invoked[s]) :
        /\ invoked[s][i].path = "removed"
        /\ ~invoked[s][j].res.add
        /\ invoked[s][j].res.err # kDNSServiceErr_NoError
        /\ invoked[s][j].path = "error"

(* C7 as claimed: after browse callbacks [add A, add B, remove A] exactly  *)
(* one Resolver was created for B and no Resolver for A remains pending    *)
(* (open and reader-registered).                                           *)
C7_Original ==
    \A s \in Browses :
        AddAAddBRemoveA(s) =>
            /\ Cardinality(ResolversFor(s, "B")) = 1
            /\ \A u \in ResolversFor(s, "A") : ~(sd[u].open /\ u \in readers)

(* C7 amended: after browse callbacks [add A, add B, remove A] exactly one *)
(* Resolver was created for B and exactly one for A, and the remove event  *)
(* did not release the Resolver for A: its session is still open and       *)
(* reader-registered unless the reactor tore its bridge down.              *)
C7_ResolverForAStaysPending ==
    \A s \in Browses :
        AddAAddBRemoveA(s) =>
            /\ Cardinality(ResolversFor(s, "B")) = 1
            /\ Cardinality(ResolversFor(s, "A")) = 1
            /\ \A u \in ResolversFor(s, "A") \cup ResolversFor(s, "B") :
                  /\ sd[u].closes = (IF desc[u].lost = 0 THEN 0 ELSE 1)
                  /\ desc[u].lost = 0 => (sd[u].open /\ u \in readers)

\* The three callbacks happened and the Resolver for A is still pending.
C7_Witness ==
    \E s \in Browses :
        /\ AddAAddBRemoveA(s)
        /\ \E u \in ResolversFor(s, "A") : sd[u].open /\ u \in readers

(* C8: end to end, with the Advertiser and the Browser started for the     *)
(* same regtype and the reactor dispatching readiness fairly, the          *)
(* Browser's resolve callback is eventually invoked with error code 0, the *)
(* advertised name and the advertised port (9000 in the claim's scenario). *)
Started == comp["adv"].sdRef # None /\ comp["brw"].sdRef # None

Resolved ==
    \E u \in Sessions : \E i \in 1..Len(invoked[u]) :
        /\ sd[u].kind = "resolve"
        /\ sd[u].parent = comp["brw"].sdRef
        /\ invoked[u][i].path = "user"
        /\ invoked[u][i].res.err = kDNSServiceErr_NoError
        /\ invoked[u][i].res.name = cfg.name
        /\ invoked[u][i].res.port = cfg.port

C10_CallbacksOnlyInDoRead ==
    /\ [](\A s \in Sessions : \A i \in 1..Len(invoked[s]) :
            invoked[s][i].via = "doRead")
    /\ [][\A s \in Sessions :
            invoked'[s] # invoked[s] =>
                /\ calls' = calls
                /\ s \in readers
                /\ desc[s].sdRef = s
                /\ sd[s].queue # <<>>
                /\ sd'[s].queue = Tail(sd[s].queue)
                /\ Len(invoked'[s]) = Len(invoked[s]) + 1]_vars

\* A registration callback and a browseCallback have both been invoked.
C10_Witness ==
    \E s, u \in Sessions :
        /\ sd[s].kind = "register" /\ invoked[s] # <<>>
        /\ sd[u].kind = "browse" /\ invoked[u] # <<>>

(* C11: whatever name, regtype, domain and port the Advertiser was made    *)
(* with, every registration callback invocation with error code 0 carries  *)
(* the name, regtype and domain the Advertiser registered with.            *)
C11_RegistrationCallbackEchoes ==
    \A s \in Sessions : \A i \in 1..Len(invoked[s]) :
        (/\ sd[s].kind = "register"
         /\ invoked[s][i].res.err = kDNSServiceErr_NoError)
        => /\ invoked[s][i].path = "user"
           /\ invoked[s][i].res.name = cfg.name
           /\ invoked[s][i].res.regtype = cfg.regtype
           /\ invoked[s][i].res.domain = cfg.domain

\* The registration callback of ("svcX", "_test._tcp", "local") was invoked
\* with error code 0.
C11_Witness ==
    \E s \in Sessions : \E i \in 1..Len(invoked[s]) :
        /\ sd[s].kind = "register"
        /\ invoked[s][i].res.err = kDNSServiceErr_NoError
        /\ cfg.regtype = "_test._tcp"

(* C12: a browseCallback invocation with a nonzero error code, whatever    *)
(* the flags, takes the error path only: it creates no session (no         *)
(* Resolver, no new browse session), invokes no other callback, and leaves *)
(* the components, the bridges, the reader set and every session unchanged *)
(* but for the result it consumed.                                         *)
C12_BrowseErrorIsDiscarded ==
    [][\A s \in Sessions :
         (/\ sd[s].kind = "browse"
          /\ Len(invoked'[s]) = Len(invoked[s]) + 1
          /\ Last(invoked'[s]).res.err # kDNSServiceErr_NoError)
         => /\ Last(invoked'[s]).path = "error"
            /\ nextSd' = nextSd
            /\ readers' = readers
            /\ comp' = comp
            /\ desc' = desc
            /\ sd' = [sd EXCEPT ![s].queue = Tail(@)]
            /\ \A u \in Sessions \ {s} : invoked'[u] = invoked[u]]_vars

\* A failed browse result with the "add" flag was dispatched while the
\* Browser's session was registered.
C12_Witness ==
    \E s \in Sessions : \E i \in 1..Len(invoked[s]) :
        /\ sd[s].kind = "browse"
        /\ invoked[s][i].res.err # kDNSServiceErr_NoError
        /\ invoked[s][i].res.add
        /\ s \in readers
        /\ nextSd <= MaxSessions

(* C13: a browseCallback invocation with error code 0 and the "add" flag   *)
(* makes exactly one new session, a resolve session for the reported       *)
(* serviceName, regtype, replyDomain and interfaceIndex that reports to    *)
(* the Browser's resolve callback, open and registered as a reader when    *)
(* the callback returns.  Nothing is deduplicated: a browse session has as *)
(* many resolve sessions as it saw such results.  The Browser's resolvers  *)
(* list is empty in every state.                                           *)
AddsSeen(s) ==
    {i \in 1..Len(invoked[s]) :
        invoked[s][i].res.err = kDNSServiceErr_NoError /\ invoked[s][i].res.add}

C13_AddSpawnsOneResolver ==
    /\ [](/\ comp["brw"].resolvers = <<>>
          /\ \A s \in Sessions :
                sd[s].kind = "browse" =>
                    Cardinality({u \in Sessions : sd[u].parent = s})
                        = Cardinality(AddsSeen(s)))
    /\ [][\A s \in Sessions :
            (/\ sd[s].kind = "browse"
             /\ Len(invoked'[s]) = Len(invoked[s]) + 1
             /\ Last(invoked'[s]).res.err = kDNSServiceErr_NoError
             /\ Last(invoked'[s]).res.add)
            => LET r == Last(invoked'[s]).res
                   n == nextSd
               IN  /\ Last(invoked'[s]).path = "resolver"
                   /\ nextSd' = n + 1
                   /\ sd'[n] = NewSd("resolve", "resolveCallback", r.name, r.regtype,
                                     r.domain, r.ifx, "spawn", s)
                   /\ desc'[n] = BonjourDescriptor(n)
                   /\ readers' = readers \cup {n}
                   /\ n \notin readers
                   /\ \A u \in Sessions \ {s, n} : sd'[u] = sd[u]]_vars

\* Two "add" results for the same instance made two resolve sessions, both
\* open and registered.
C13_Witness ==
    \E s, u, v \in Sessions :
        /\ sd[s].kind = "browse"
        /\ u # v
        /\ sd[u].parent = s /\ sd[v].parent = s
        /\ sd[u].name = sd[v].name
        /\ sd[u].open /\ sd[v].open
        /\ {u, v} \subseteq readers

(* C14: the Browser never stops a Resolver it spawned.  A spawned resolve  *)
(* session that is open and registered stays so in every step that is not  *)
(* the reactor's teardown of its own bridge: also when its resolve         *)
(* callback fires, when a removal is reported and when stopBrowsing is     *)
(* called.  stopBrowsing touches no session but the Browser's browse       *)
(* session and no reader but the Browser's bridge, and without a teardown  *)
(* the number of open resolve sessions never decreases.                    *)
Spawned == {u \in Sessions : sd[u].owner = "spawn"}
OpenSpawned == {u \in Spawned : sd[u].open}
TornDown(u) == desc'[u].lost = desc[u].lost + 1

C14_SpawnedResolversNeverStopped ==
    [][/\ \A u \in Spawned :
            (sd[u].open /\ u \in readers)
                => \/ sd'[u].open /\ u \in readers' /\ desc'[u].sdRef = desc[u].sdRef
                   \/ TornDown(u)
       /\ Called("brw", "stop")
            => /\ \A u \in Sessions \ {comp["brw"].sdRef} : sd'[u] = sd[u]
               /\ readers \ {comp["brw"].bonjourDesc} \subseteq readers'
       /\ (\A u \in Sessions : ~TornDown(u))
            => OpenSpawned \subseteq {u \in Sessions : sd'[u].owner = "spawn" /\ sd'[u].open}
      ]_vars

\* A spawned Resolver got its reply, a stopBrowsing closed the browse
\* session it came from, and it is still open and registered.
C14_Witness ==
    \E u \in Spawned :
        /\ sd[u].open /\ u \in readers
        /\ invoked[u] # <<>>
        /\ ~sd[sd[u].parent].open
        /\ \E i \in 1..Len(calls["brw"]) :
              calls["brw"][i].op = "stop" /\ calls["brw"][i].ok

(* C15: a doRead processes exactly one pending result of the session its   *)
(* bridge wraps: one callback invocation, for the oldest pending result,   *)
(* and the other pending results of that session and of every other        *)
(* session stay pending.  doRead leaves the session reference of every     *)
(* bridge alone and removes no reader; the only reader that appears is the *)
(* bridge of the Resolver that browseCallback starts.                      *)
Dispatched(s) == Len(invoked'[s]) = Len(invoked[s]) + 1

C15_DoReadProcessesOneResult ==
    [][invoked' # invoked =>
         \E s \in Sessions :
            /\ Dispatched(s)
            /\ SubSeq(invoked'[s], 1, Len(invoked[s])) = invoked[s]
            /\ Last(invoked'[s]).res = Head(sd[s].queue)
            /\ Last(invoked'[s]).via = "doRead"
            /\ sd'[s].queue = Tail(sd[s].queue)
            /\ sd'[s].open = sd[s].open /\ sd'[s].closes = sd[s].closes
            /\ \A u \in Sessions \ {s} :
                  /\ invoked'[u] = invoked[u]
                  /\ u < nextSd => sd'[u] = sd[u]
            /\ \A b \in Sessions : b < nextSd => desc'[b] = desc[b]
            /\ readers \subseteq readers'
            /\ readers' \ readers \subseteq
                  IF Last(invoked'[s]).path = "resolver" THEN {nextSd} ELSE {}
      ]_vars

\* Two results were pending on a session; one doRead handled the first and
\* the second is still pending on the registered bridge.
C15_Witness ==
    \E s \in Sessions :
        /\ Len(delivered[s]) = 2
        /\ Len(invoked[s]) = 1
        /\ invoked[s][1].res = delivered[s][1]
        /\ sd[s].queue = <<delivered[s][2]>>
        /\ delivered[s][1] # delivered[s][2]
        /\ s \in readers /\ desc[s].sdRef = s /\ sd[s].open

(* C16: connectionLost closes the session when the bridge's handle is set  *)
(* and sets the handle to None; a connectionLost on a bridge whose handle  *)
(* is None changes nothing.  The first connectionLost on a bridge finds    *)
(* the handle set, every later one finds it None: over any number of       *)
(* connectionLost calls on one bridge, connectionLost calls close() once.  *)
C16_ConnectionLostClosesOnce ==
    [][\A b \in Sessions :
          TornDown(b) =>
             /\ desc'[b].sdRef = None
             /\ \A u \in Sessions \ {b} : desc'[u] = desc[u] /\ sd'[u] = sd[u]
             /\ IF desc[b].sdRef # None
                THEN /\ desc[b].lost = 0
                     /\ desc[b].sdRef = b
                     /\ sd'[b] = [sd[b] EXCEPT !.open = FALSE, !.closes = @ + 1]
                ELSE /\ desc[b].lost >= 1
                     /\ sd' = sd
      ]_vars

\* connectionLost was called twice on a bridge, and its session was closed
\* once.
C16_Witness ==
    \E b \in Sessions :
        /\ desc[b].lost >= 2
        /\ desc[b].sdRef = None
        /\ sd[b].closes = 1 /\ ~sd[b].open

(* C17: when the process-result call fails during doRead, the bridge does  *)
(* not call it again and does not close the session: the exception leaves  *)
(* doRead with the session open and never closed by this step, the         *)
(* bridge's session reference and its registration as they were, and no    *)
(* callback invoked.                                                       *)
Raised(b) == desc'[b].raised = desc[b].raised + 1

C17_FailedDoReadLeavesSessionOpen ==
    [][\A b \in Sessions :
          Raised(b) =>
             /\ desc'[b].sdRef = desc[b].sdRef
             /\ desc'[b].sdRef # None
             /\ desc'[b].lost = desc[b].lost
             /\ sd[desc[b].sdRef].open
             /\ \A s \in Sessions :
                   /\ sd'[s].open = sd[s].open
                   /\ sd'[s].closes = sd[s].closes
             /\ invoked' = invoked
             /\ readers' = readers
             /\ comp' = comp
             /\ \A u \in Sessions \ {b} : desc'[u] = desc[u]
      ]_vars

\* A doRead failed on a bridge that had a result pending; the bridge is
\* still registered and its session open and never closed.
C17_Witness ==
    \E b \in Sessions :
        /\ desc[b].raised >= 1
        /\ b \in readers
        /\ desc[b].sdRef = b
        /\ sd[b].open /\ sd[b].closes = 0
        /\ sd[b].queue # <<>>

(* C18: over any interleaving of start*, stop* and the reactor's teardown, *)
(* close() is called at most once on each session; in particular a stop*   *)
(* that follows the connectionLost of the component's bridge does not      *)
(* close the session again.                                                *)
C18_CloseAtMostOnce ==
    \A s \in Sessions : sd[s].closes <= 1

(* C19: every bridge in the reactor's reader set wraps a session that is   *)
(* set and open, so doRead and fileno are only dispatched on a bridge with *)
(* an open session: under any sequence of start*, stop*, browse callbacks, *)
(* failed reads and teardowns, also when a callback dispatched by a        *)
(* bridge's doRead calls a stop*.                                          *)
C19_ReadersWrapOpenSessions ==
    \A b \in readers :
        /\ desc[b].sdRef # None
        /\ sd[desc[b].sdRef].open

\* A callback dispatched by the doRead of a component's own bridge stopped
\* that component: its session is closed and its bridge is out of the
\* reader set, while another bridge is still registered.
C19_Witness ==
    \E s \in Sessions :
        /\ invoked[s] # <<>>
        /\ Last(invoked[s]).path = "stopping"
        /\ sd[s].owner \in Comps
        /\ comp[sd[s].owner].bonjourDesc = s
        /\ comp[sd[s].owner].sdRef = None
        /\ ~sd[s].open
        /\ s \notin readers
        /\ readers # {}

====
